---------------------------- MODULE Spec2Model ----------------------------
(***************************************************************************)
(* The news crawlers of tw_crawler (CNYES, MoneyUDN, PTT, CTEE): the       *)
(* listing scan with its date / rolling-window cutoff and the article      *)
(* enrichment; the request handling of server.py; the parsing of the FAOI  *)
(* and MGTS market tables.                                                 *)
(*                                                                         *)
(* Time is counted in whole hours.  A calendar date is a day number, a     *)
(* wall-clock datetime is day * 24 + hour, "%Y-%m-%d" of a datetime is its *)
(* day number and "%H:%M:%S" its hour of the day.  A year has 365 days, so *)
(* day 364 is 12/31 of year 0 and day 365 is 1/01 of year 1.               *)
(***************************************************************************)
EXTENDS Integers, Sequences, FiniteSets, TLC

\* Python's None, for an absent timestamp, cutoff or date.
None == -1

\* TW_TZ = timezone(timedelta(hours=8))
TW_TZ == 8

\* ----------------------------------------------------------------- bounds
\* Longest listing page, and longest input list of the pure filters.
MaxPageLen == 2
MaxItems == 3
\* Hours on each side of midnight covered by the inputs of the pure filters.
Span == 2
\* Largest last_page a CNYES response reports; pages of the PTT board.
MaxLastPage == 2
MaxPttPages == 2
\* Most articles that the pages a CNYES or PTT scan reads offer as matches.
MaxMatches == 3
\* Longest CTEE listing page.
MaxCteePageLen == 1
\* Most candidates the pages a CTEE scan reads offer.
MaxCteeMatches == 1
MaxFeedPageLen == 1
MaxFeedLen == 2
\* Hours the clock may advance while a crawl runs.
MaxElapsed == 1
\* Most items a sorted listing holds.
MaxListed == 4

\* ------------------------------------------------------------- calendar
\* datetime.date() / strftime("%Y-%m-%d") of a wall-clock datetime.
DateOf(dt) == dt \div 24
\* strftime("%H:%M:%S") of a wall-clock datetime.
TimeOf(dt) == dt % 24
\* The year of a date, and the M/DD a listing shows for it.
YearOf(d) == d \div 365
MonthDayOf(d) == d % 365

\* The days the sources publish on: 12/31 of year 0, 1/01 and 1/02 of year 1.
Days == {364, 365, 366}
Urls == {1, 2}

\* --------------------------------------------------------------- CNYES
\* datetime.fromtimestamp(ts, tz=TW_TZ): the Taiwan wall clock of a Unix
\* timestamp (in hours).  Aware datetimes of one zone compare as their
\* wall clocks do.
timestamp_to_tw_datetime_utc(ts) == ts
timestamp_to_tw_datetime(ts) == ts + TW_TZ

\* f"https://news.cnyes.com/news/id/{news_id}": one url per newsId.
build_article_url(news_id) == news_id

cnyes_row(date, article_dt, item) ==
    [Date |-> date, Time |-> TimeOf(article_dt),
     url |-> build_article_url(item.newsId)]

\* The comparison of the hours mode: article_dt >= cutoff_dt.
cnyes_after_cutoff_strict(article_dt, cutoff_dt) == article_dt > cutoff_dt
cnyes_after_cutoff(article_dt, cutoff_dt) == article_dt >= cutoff_dt

\* The comparison of the date mode's elif: article_date < target_dt.
cnyes_is_older_ne(article_date, target_dt) == article_date # target_dt
cnyes_is_older(article_date, target_dt) == article_date < target_dt

\* if publish_at is None: continue
cnyes_missing_never(publish_at) == FALSE
cnyes_missing(publish_at) == publish_at = None

RECURSIVE parse_news_items_loop(_, _, _, _, _, _)
parse_news_items_loop(items, i, target_date, cutoff_dt, matched, found_older) ==
    IF i > Len(items)
    THEN [matched |-> matched, found_older |-> found_older]
    ELSE LET item == items[i]
             publish_at == item.publishAt
         IN  IF cnyes_missing(publish_at)
             THEN parse_news_items_loop(items, i + 1, target_date, cutoff_dt,
                                        matched, found_older)
             ELSE LET article_dt == timestamp_to_tw_datetime(publish_at)
                      article_date == DateOf(article_dt)
                  IN  IF cutoff_dt # None
                      THEN IF cnyes_after_cutoff(article_dt, cutoff_dt)
                           THEN parse_news_items_loop(
                                    items, i + 1, target_date, cutoff_dt,
                                    Append(matched,
                                           cnyes_row(DateOf(article_dt),
                                                     article_dt, item)),
                                    found_older)
                           ELSE parse_news_items_loop(
                                    items, i + 1, target_date, cutoff_dt,
                                    matched, TRUE)
                      ELSE IF article_date = target_date
                           THEN parse_news_items_loop(
                                    items, i + 1, target_date, cutoff_dt,
                                    Append(matched,
                                           cnyes_row(target_date,
                                                     article_dt, item)),
                                    found_older)
                           ELSE IF cnyes_is_older(article_date, target_date)
                                THEN parse_news_items_loop(
                                         items, i + 1, target_date, cutoff_dt,
                                         matched, TRUE)
                                ELSE parse_news_items_loop(
                                         items, i + 1, target_date, cutoff_dt,
                                         matched, found_older)

parse_news_items(items, target_date, cutoff_dt) ==
    parse_news_items_loop(items, 1, target_date, cutoff_dt, <<>>, FALSE)

\* ------------------------------------------------------------- MoneyUDN
\* MAX_LIST_PAGES = 10
MAX_LIST_PAGES == 10

\* A listing url is <<path, query>> (query 1: a ?from=... tracking parameter)
\* or <<>> when the article carries none.  _build_full_url drops the query.
build_full_url(relative_url) == relative_url[1]

\* _parse_published_date: the wall clock of datePublished (its zone, when it
\* has one, is dropped by replace(tzinfo=None)); None when it does not parse.
parse_published_date(date_str) == date_str

udn_candidate(full_url, published_dt) ==
    [url |-> full_url, time_str |-> TimeOf(published_dt),
     date_str |-> DateOf(published_dt)]

\* if full_url in seen_urls: continue
udn_seen_never(full_url, seen_urls) == FALSE
udn_seen(full_url, seen_urls) == full_url \in seen_urls

\* The for-loop over one listing page (moneyudn_news.py 315-362): st holds
\* candidates, seen_urls and passed_target.
RECURSIVE udn_page_loop(_, _, _, _, _)
udn_page_loop(articles, i, target_date, cutoff_dt, st) ==
    IF i > Len(articles) THEN st
    ELSE LET article == articles[i]
             published_dt == parse_published_date(article.datePublished)
             next == udn_page_loop(articles, i + 1, target_date, cutoff_dt, st)
             older == [st EXCEPT !.passed_target = TRUE]
         IN  IF published_dt = None THEN next
             ELSE IF cutoff_dt # None /\ published_dt < cutoff_dt THEN older
             ELSE IF cutoff_dt = None /\ DateOf(published_dt) < target_date
                  THEN older
             ELSE IF cutoff_dt = None /\ DateOf(published_dt) # target_date
                  THEN next
             ELSE IF article.url = <<>> THEN next
             ELSE LET full_url == build_full_url(article.url)
                  IN  IF udn_seen(full_url, st.seen_urls) THEN next
                      ELSE udn_page_loop(
                               articles, i + 1, target_date, cutoff_dt,
                               [st EXCEPT
                                  !.seen_urls = @ \cup {full_url},
                                  !.candidates =
                                      Append(@, udn_candidate(full_url,
                                                              published_dt))])

udn_scan_page(articles, target_date, cutoff_dt, candidates, seen_urls) ==
    udn_page_loop(articles, 1, target_date, cutoff_dt,
                  [candidates |-> candidates, seen_urls |-> seen_urls,
                   passed_target |-> FALSE])

\* ------------------------------------------------------------------ PTT
\* A listing entry carries the url of its title link (0: an empty href) and
\* the day it was posted, of which the page shows only the M/DD (None: no
\* date, or one that does not parse).
\* _parse_list_date: datetime(target_year, month, day).
parse_list_date_true(posted, target_year) == posted
parse_list_date_epoch(posted, target_year) ==
    IF posted = None THEN 0 ELSE target_year * 365 + MonthDayOf(posted)
parse_list_date(posted, target_year) ==
    IF posted = None THEN None ELSE target_year * 365 + MonthDayOf(posted)

RECURSIVE parse_list_articles_loop(_, _, _, _, _, _, _)
parse_list_articles_loop(entries, i, target_date, target_year, cutoff_date, articles, found_older) ==
    IF i > Len(entries)
    THEN [articles |-> articles, found_older |-> found_older]
    ELSE LET entry == entries[i]
             article_date == parse_list_date(entry.posted, target_year)
             keep == parse_list_articles_loop(
                         entries, i + 1, target_date, target_year, cutoff_date,
                         Append(articles, [url |-> entry.url]), found_older)
             older == parse_list_articles_loop(
                          entries, i + 1, target_date, target_year,
                          cutoff_date, articles, TRUE)
             skip == parse_list_articles_loop(
                         entries, i + 1, target_date, target_year,
                         cutoff_date, articles, found_older)
         IN  IF article_date = None THEN keep
             ELSE IF cutoff_date # None
                  THEN IF article_date >= cutoff_date THEN keep ELSE older
                  ELSE IF article_date = target_date THEN keep
                       ELSE IF article_date < target_date THEN older
                       ELSE skip

parse_list_articles(entries, target_date, target_year, cutoff_date) ==
    parse_list_articles_loop(entries, 1, target_date, target_year,
                             cutoff_date, <<>>, FALSE)

\* The row of one enriched PTT article: the article page's own date and time
\* when it carries a timestamp, else the requested date and no time.
ptt_row_no_fallback(url, full_dt, date) ==
    [Date |-> IF full_dt # None THEN DateOf(full_dt) ELSE None,
     Time |-> IF full_dt # None THEN TimeOf(full_dt) ELSE None,
     url |-> url]
ptt_row(url, full_dt, date) ==
    [Date |-> IF full_dt # None THEN DateOf(full_dt) ELSE date,
     Time |-> IF full_dt # None THEN TimeOf(full_dt) ELSE None,
     url |-> url]

\* if full_dt < naive_cutoff: continue
ptt_too_old_never(full_dt, naive_cutoff) == FALSE
ptt_too_old(full_dt, naive_cutoff) == full_dt < naive_cutoff

\* if full_dt.date() != target_dt: continue
ptt_wrong_date_older(full_dt, target_dt) == DateOf(full_dt) < target_dt
ptt_wrong_date(full_dt, target_dt) == DateOf(full_dt) # target_dt

\* What one pass of the enrichment loop does with a candidate, given whether
\* the fetch of its article page raised and the timestamp the page carries.
ptt_enrich_event(url, raised, full_dt, naive_cutoff, target_dt) ==
    IF url = 0 THEN "no_url"
    ELSE IF raised THEN "failed"
    ELSE IF full_dt = None THEN "ok"
    ELSE IF naive_cutoff # None
         THEN IF ptt_too_old(full_dt, naive_cutoff) THEN "too_old" ELSE "ok"
         ELSE IF ptt_wrong_date(full_dt, target_dt) THEN "wrong_date"
              ELSE "ok"

\* ---------------------------------------------------------- the sources
SeqsUpTo(S, n) == UNION {[1..k -> S] : k \in 0..n}

\* Wall-clock instants articles are published at: 01:00 of each day.
Stamps == {d * 24 + 1 : d \in Days}

CnyesItems == [newsId : Urls, publishAt : {None} \cup {w - TW_TZ : w \in Stamps}]
UdnArticles ==
    {a \in [url : {<<>>, <<1, 0>>, <<1, 1>>, <<2, 0>>},
            datePublished : {None} \cup Stamps] :
        /\ a.url = <<>> => a.datePublished = 366 * 24 + 1
        /\ a.url = <<1, 1>> => a.datePublished \in {365 * 24 + 1, 366 * 24 + 1}
        /\ a.datePublished = None => a.url = <<1, 0>>}
PttEntries == [url : {0} \cup Urls, posted : {None} \cup Days]

\* The listing pages a source may answer with.  One CNYES response lists a
\* newsId once and one PTT page links an article once; the same article may
\* come again on the next page, the listing having moved between two fetches.
CnyesPages ==
    {p \in SeqsUpTo(CnyesItems, MaxPageLen) :
        \A i, j \in 1..Len(p) : p[i].newsId = p[j].newsId => i = j}
UdnPages == SeqsUpTo(UdnArticles, MaxPageLen)
PttPages ==
    {p \in SeqsUpTo(PttEntries, MaxPageLen) :
        \A i, j \in 1..Len(p) :
            (p[i].url # 0 /\ p[i].url = p[j].url) => i = j}

\* The date argument, the clock at the call and the hours argument.
Targets == {365, 366}
Clocks == {366 * 24 + 1}
HoursArgs == {2, 26}

\* -------------------------------------------------------------- state
VARIABLES
    crawler,      \* which crawler this invocation runs
    date,         \* the date argument (a day)
    hours,        \* the hours argument, or None
    clock,        \* datetime.now(tz=TW_TZ)
    cutoff_dt,    \* now - hours, or None in date mode
    pc,           \* "start", "list", "enrich", "done"
    scan,         \* why the listing loop ended, "SCANNING" while it runs
    page,         \* number of the listing page fetched next
    last_page,    \* CNYES: last_page of the page-1 response
    candidates,   \* all_articles / candidates / all_candidates
    seen_urls,    \* MoneyUDN: urls collected so far
    idx,          \* position of the enrichment loop
    log,          \* what the enrichment loop did with each candidate so far
    results,      \* the rows of the returned table
    outcome,      \* "running", "returned", "raised"
    df,           \* the table the crawler returned, NoDf before it returns
    fetches,      \* listing pages requested so far
    older_seen,   \* a processed page held an item truly older than the target
    repeat_seen,  \* MoneyUDN: a page offered again an article already collected
    last_fetch,   \* what the last listing request came to
    gap,          \* what has happened since the last HTTP request
    in_items,     \* input of a pure filter
    applied,      \* which pure filter was applied
    out,          \* its result
    request,      \* server: the HTTP request being served
    futures,      \* server: what each submitted crawler call has come to
    data,         \* server: crawl_all's results dict
    response,     \* server: the HTTP response, NoResponse until it is sent
    calls,        \* server: the crawler calls made for the request
    invs,         \* two interleaved invocations of one crawler
    feed          \* the listing pages the source serves to the two

vars == <<crawler, date, hours, clock, cutoff_dt, pc, scan, page, last_page,
          candidates, seen_urls, idx, log, results, outcome, df, fetches,
          older_seen, repeat_seen, last_fetch, gap, in_items, applied, out,
          request, futures, data, response, calls, invs, feed>>

filter_vars == <<in_items, applied, out>>
input_vars == <<crawler, date, hours, clock>>
server_vars == <<request, futures, data, response, calls>>
pair_vars == <<invs, feed>>

\* No HTTP request is being served and no pair of invocations is running.
NoResponse == [status |-> 0]
NoServer ==
    /\ request = [endpoint |-> "none"]
    /\ futures = <<>>
    /\ data = <<>>
    /\ response = NoResponse
    /\ calls = {}
NoPair == invs = <<>> /\ feed = <<>>

\* Nothing is returned yet.
NoDf == [kind |-> "unset"]

NoFilter ==
    /\ in_items = <<>>
    /\ applied = "none"
    /\ out = <<>>

Init ==
    /\ crawler \in {"cnyes", "udn", "ptt", "ctee"}
    /\ date \in Targets
    /\ hours \in {None} \cup HoursArgs
    /\ clock \in Clocks
    /\ cutoff_dt = None
    /\ pc = "start"
    /\ scan = "SCANNING"
    /\ page = 1
    /\ last_page = 1
    /\ candidates = <<>>
    /\ seen_urls = {}
    /\ idx = 1
    /\ log = <<>>
    /\ results = <<>>
    /\ outcome = "running"
    /\ df = NoDf
    /\ fetches = 0
    /\ older_seen = FALSE
    /\ repeat_seen = FALSE
    /\ last_fetch = "none"
    /\ gap = "none"
    /\ NoFilter
    /\ NoServer
    /\ NoPair

\* cutoff_dt = None; if hours is not None: cutoff_dt = now - timedelta(hours)
Start ==
    /\ pc = "start"
    /\ cutoff_dt' = IF hours = None THEN None ELSE clock - hours
    /\ pc' = "list"
    /\ UNCHANGED <<scan, page, last_page, candidates, seen_urls, idx, log,
                   results, outcome, df, fetches, older_seen, repeat_seen,
                   last_fetch, gap>>
    /\ UNCHANGED input_vars
    /\ UNCHANGED filter_vars
    /\ UNCHANGED <<server_vars, pair_vars>>

\* ------------------------------------------------------ the returned table
\* The columns of each news crawler's table: columns = [...]; df = df[columns]
\* and the list _gen_empty_df gives its empty DataFrame.
news_columns(c) ==
    IF c = "cnyes"
    THEN <<"Date", "Time", "Author", "Head", "HashTag", "url", "Content">>
    ELSE IF c = "ctee"
    THEN <<"Date", "Time", "Author", "Head", "SubHead", "HashTag", "url",
           "Content">>
    ELSE <<"Date", "Time", "Author", "Head", "url", "Content">>

\* _gen_empty_df()
gen_empty_df(c) == [kind |-> "DataFrame", columns |-> news_columns(c),
                    rows |-> <<>>]

\* if not results: return _gen_empty_df(); df = pd.DataFrame(results);
\* return df[columns]
returned_df_none(c, rows) ==
    IF rows = <<>> THEN [kind |-> "None"]
    ELSE [kind |-> "DataFrame", columns |-> news_columns(c), rows |-> rows]
returned_df(c, rows) ==
    IF rows = <<>> THEN gen_empty_df(c)
    ELSE [kind |-> "DataFrame", columns |-> news_columns(c), rows |-> rows]

\* ------------------------------------------------------- the listing scan
\* The listing loop ends with cands collected: CNYES returns them as its
\* table; MoneyUDN and PTT return an empty table when there are none and
\* otherwise go on to fetch each candidate's article.
EndScan(reason, cands) ==
    /\ scan' = reason
    /\ candidates' = cands
    /\ IF crawler = "cnyes" \/ cands = <<>>
       THEN /\ pc' = "done"
            /\ results' = cands
            /\ outcome' = "returned"
            /\ df' = returned_df(crawler, cands)
       ELSE /\ pc' = "enrich"
            /\ UNCHANGED <<results, outcome, df>>

\* The listing loop goes on to page p.
NextPage_refetch(cands, p) ==
    /\ candidates' = cands
    /\ UNCHANGED <<page, scan, pc, results, outcome, df>>
NextPage(cands, p) ==
    /\ candidates' = cands
    /\ page' = p
    /\ UNCHANGED <<scan, pc, results, outcome, df>>

\* What has happened since the last HTTP request of the invocation: "none"
\* before the first request, "requested" right after one, "slept" once
\* time.sleep has run since, and "hasty" from the moment a request has
\* followed another with no sleep between them.
http_request(g) == IF g \in {"requested", "hasty"} THEN "hasty" ELSE "requested"
sleep(g) == IF g = "requested" THEN "slept" ELSE g

\* A date-mode page holds an item published before the target date.
CnyesHasOlder(news_list) ==
    /\ hours = None
    /\ \E i \in 1..Len(news_list) :
          /\ news_list[i].publishAt # None
          /\ DateOf(news_list[i].publishAt + TW_TZ) < date
UdnHasOlder(articles) ==
    /\ hours = None
    /\ \E i \in 1..Len(articles) :
          /\ articles[i].datePublished # None
          /\ DateOf(articles[i].datePublished) < date
\* A MoneyUDN page offers, before any item past the boundary, a matching
\* article whose url was collected from an earlier page or stands earlier on
\* this page.
UdnMatches(a) ==
    /\ a.datePublished # None
    /\ a.url # <<>>
    /\ IF cutoff_dt # None THEN a.datePublished >= cutoff_dt
       ELSE DateOf(a.datePublished) = date
UdnIsPast(a) ==
    /\ a.datePublished # None
    /\ IF cutoff_dt # None THEN a.datePublished < cutoff_dt
       ELSE DateOf(a.datePublished) < date
UdnRepeats(articles) ==
    \E i \in 1..Len(articles) :
       /\ UdnMatches(articles[i])
       /\ \A j \in 1..(i - 1) : ~UdnIsPast(articles[j])
       /\ \/ articles[i].url[1] \in seen_urls
          \/ \E j \in 1..(i - 1) : /\ UdnMatches(articles[j])
                                   /\ articles[j].url[1] = articles[i].url[1]
PttHasOlder(entries) ==
    /\ hours = None
    /\ \E i \in 1..Len(entries) :
          /\ entries[i].posted # None
          /\ entries[i].posted < date

\* except (requests.RequestException, ValueError): break
CnyesFetchError_raises ==
    /\ crawler = "cnyes" /\ pc = "list"
    /\ fetches' = fetches + 1
    /\ last_fetch' = "error"
    /\ gap' = http_request(gap)
    /\ scan' = "STOPPED_FETCH_ERROR"
    /\ pc' = "done"
    /\ outcome' = "raised"
    /\ UNCHANGED <<cutoff_dt, page, last_page, candidates, seen_urls, idx,
                   log, results, df, older_seen, repeat_seen>>
    /\ UNCHANGED input_vars
    /\ UNCHANGED filter_vars
    /\ UNCHANGED <<server_vars, pair_vars>>
CnyesFetchError ==
    /\ crawler = "cnyes" /\ pc = "list"
    /\ fetches' = fetches + 1
    /\ last_fetch' = "error"
    /\ gap' = http_request(gap)
    /\ EndScan("STOPPED_FETCH_ERROR", candidates)
    /\ UNCHANGED <<cutoff_dt, page, last_page, seen_urls, idx, log,
                   older_seen, repeat_seen>>
    /\ UNCHANGED input_vars
    /\ UNCHANGED filter_vars
    /\ UNCHANGED <<server_vars, pair_vars>>

\* One pass of while page <= last_page with a response: the page's items and
\* the last_page it reports.
CnyesPage ==
    /\ crawler = "cnyes" /\ pc = "list"
    /\ fetches' = fetches + 1
    /\ gap' = http_request(gap)
    /\ \E news_list \in CnyesPages, lp \in 1..MaxLastPage :
          /\ last_fetch' = IF news_list = <<>> THEN "empty" ELSE "items"
          /\ IF news_list = <<>>
             THEN /\ EndScan("STOPPED_EMPTY_PAGE", candidates)
                  /\ UNCHANGED <<page, last_page, older_seen>>
             ELSE LET new_last == IF page = 1 THEN lp ELSE last_page
                      r == parse_news_items(news_list, date, cutoff_dt)
                      all_articles == candidates \o r.matched
                  IN  /\ Len(all_articles) <= MaxMatches
                      /\ last_page' = new_last
                      /\ older_seen' = (older_seen \/ CnyesHasOlder(news_list))
                      /\ IF r.found_older
                         THEN /\ EndScan("STOPPED_BOUNDARY", all_articles)
                              /\ UNCHANGED page
                         ELSE IF page + 1 > new_last
                         THEN /\ EndScan("STOPPED_MAX_PAGES", all_articles)
                              /\ UNCHANGED page
                         ELSE NextPage(all_articles, page + 1)
    /\ UNCHANGED <<cutoff_dt, seen_urls, idx, log, repeat_seen>>
    /\ UNCHANGED input_vars
    /\ UNCHANGED filter_vars
    /\ UNCHANGED <<server_vars, pair_vars>>

\* except requests.RequestException: break
UdnFetchError ==
    /\ crawler = "udn" /\ pc = "list"
    /\ fetches' = fetches + 1
    /\ last_fetch' = "error"
    /\ gap' = http_request(IF page > 1 THEN sleep(gap) ELSE gap)
    /\ EndScan("STOPPED_FETCH_ERROR", candidates)
    /\ UNCHANGED <<cutoff_dt, page, last_page, seen_urls, idx, log,
                   older_seen, repeat_seen>>
    /\ UNCHANGED input_vars
    /\ UNCHANGED filter_vars
    /\ UNCHANGED <<server_vars, pair_vars>>

\* One pass of for page in range(1, MAX_LIST_PAGES + 1) with a response.
UdnPage ==
    /\ crawler = "udn" /\ pc = "list"
    /\ fetches' = fetches + 1
    /\ gap' = http_request(IF page > 1 THEN sleep(gap) ELSE gap)
    /\ \E articles \in UdnPages :
          /\ last_fetch' = IF articles = <<>> THEN "empty" ELSE "items"
          /\ IF articles = <<>>
             THEN /\ EndScan("STOPPED_EMPTY_PAGE", candidates)
                  /\ UNCHANGED <<page, seen_urls, older_seen, repeat_seen>>
             ELSE LET st == udn_scan_page(articles, date, cutoff_dt,
                                          candidates, seen_urls)
                  IN  /\ seen_urls' = st.seen_urls
                      /\ older_seen' = (older_seen \/ UdnHasOlder(articles))
                      /\ repeat_seen' = (repeat_seen \/ UdnRepeats(articles))
                      /\ IF st.passed_target
                         THEN /\ EndScan("STOPPED_BOUNDARY", st.candidates)
                              /\ UNCHANGED page
                         ELSE IF page = MAX_LIST_PAGES
                         THEN /\ EndScan("STOPPED_MAX_PAGES", st.candidates)
                              /\ UNCHANGED page
                         ELSE NextPage(st.candidates, page + 1)
    /\ UNCHANGED <<cutoff_dt, last_page, idx, log>>
    /\ UNCHANGED input_vars
    /\ UNCHANGED filter_vars
    /\ UNCHANGED <<server_vars, pair_vars>>

\* except requests.RequestException: break
PttFetchError ==
    /\ crawler = "ptt" /\ pc = "list"
    /\ fetches' = fetches + 1
    /\ last_fetch' = "error"
    /\ gap' = http_request(gap)
    /\ EndScan("STOPPED_FETCH_ERROR", candidates)
    /\ UNCHANGED <<cutoff_dt, page, last_page, seen_urls, idx, log,
                   older_seen, repeat_seen>>
    /\ UNCHANGED input_vars
    /\ UNCHANGED filter_vars
    /\ UNCHANGED <<server_vars, pair_vars>>

\* The count of listing fetches of a scan that goes round, kept up to
\* MaxPttPages + 1.
ptt_count(n) == IF n <= MaxPttPages THEN n + 1 ELSE n

\* One pass of while current_url with a response: the page's entries and
\* whether it links to a previous page.  page tells the listing pages of the
\* board apart.  On a well-formed board the oldest page, MaxPttPages, has no
\* such link; with cyclic the source answers anything, and the link of page
\* MaxPttPages leads to page 1 again: the code follows whatever link a page
\* carries and keeps no record of the pages it has read.
PttPageOn(cyclic) ==
    /\ crawler = "ptt" /\ pc = "list"
    /\ fetches' = IF cyclic THEN ptt_count(fetches) ELSE fetches + 1
    /\ \E entries \in PttPages,
          has_prev \in {b \in BOOLEAN : cyclic \/ page < MaxPttPages \/ ~b} :
          LET cutoff_date == IF cutoff_dt = None THEN None
                             ELSE DateOf(cutoff_dt)
              r == parse_list_articles(entries, date, YearOf(date),
                                       cutoff_date)
              all_candidates == candidates \o r.articles
          IN  /\ Len(all_candidates) <= MaxMatches
              /\ last_fetch' = IF entries = <<>> THEN "empty" ELSE "items"
              /\ gap' = IF ~r.found_older /\ has_prev
                        THEN sleep(http_request(gap))
                        ELSE http_request(gap)
              /\ older_seen' = (older_seen \/ PttHasOlder(entries))
              /\ IF r.found_older
                 THEN /\ EndScan("STOPPED_BOUNDARY", all_candidates)
                      /\ UNCHANGED page
                 ELSE IF ~has_prev
                 THEN /\ EndScan("STOPPED_MAX_PAGES", all_candidates)
                      /\ UNCHANGED page
                 ELSE NextPage(all_candidates, (page % MaxPttPages) + 1)
    /\ UNCHANGED <<cutoff_dt, last_page, seen_urls, idx, log, repeat_seen>>
    /\ UNCHANGED input_vars
    /\ UNCHANGED filter_vars
    /\ UNCHANGED <<server_vars, pair_vars>>

PttPage == PttPageOn(FALSE)
PttPageLoop == PttPageOn(TRUE)

\* ----------------------------------------------------------------- CTEE
\* MAX_PAGES = 20
MAX_PAGES == 20

\* A card of the HTML listing (page 1): its link, 0 for a card without a
\* usable title link, and the date of its time.news-time, None when it has
\* none that parses.  An item of an API page: publishDatetime, None when it
\* does not parse, and the fallback publishDate.
CteeCards == [url : {0} \cup Urls, posted : {None} \cup Days]
CteeItems ==
    {it \in [url : Urls, publishDatetime : {None} \cup Stamps,
             publishDate : {None, 365}] :
        it.publishDatetime # None => it.publishDate = None}

\* A candidate: {"url", "title"} of an HTML card, or the dict
\* filter_api_articles builds of an API item.
ctee_html_candidate(card) ==
    [url |-> card.url, src |-> "html", publishDatetime |-> None,
     article_date |-> None]
ctee_api_candidate(item, article_date) ==
    [url |-> item.url, src |-> "api",
     publishDatetime |-> item.publishDatetime, article_date |-> article_date]

RECURSIVE parse_html_list_loop(_, _, _, _, _, _)
parse_html_list_loop(cards, i, target_dt, cutoff_date, articles, found_older) ==
    IF i > Len(cards)
    THEN [articles |-> articles, found_older |-> found_older]
    ELSE LET card == cards[i]
             keep == parse_html_list_loop(
                         cards, i + 1, target_dt, cutoff_date,
                         Append(articles, ctee_html_candidate(card)),
                         found_older)
             older == parse_html_list_loop(
                          cards, i + 1, target_dt, cutoff_date, articles, TRUE)
             skip == parse_html_list_loop(
                         cards, i + 1, target_dt, cutoff_date, articles,
                         found_older)
         IN  IF card.url = 0 THEN skip
             ELSE IF card.posted = None THEN keep
             ELSE IF cutoff_date # None
             THEN IF card.posted >= cutoff_date THEN keep ELSE older
             ELSE IF card.posted = target_dt THEN keep
             ELSE IF card.posted < target_dt THEN older
             ELSE skip

\* parse_html_list(html, target_date, cutoff_date)
parse_html_list(cards, target_date, cutoff_date) ==
    parse_html_list_loop(cards, 1, target_date, cutoff_date, <<>>, FALSE)

RECURSIVE filter_api_articles_loop(_, _, _, _, _, _)
filter_api_articles_loop(api_items, i, target_dt, cutoff, matched, found_older) ==
    IF i > Len(api_items)
    THEN [matched |-> matched, found_older |-> found_older]
    ELSE LET item == api_items[i]
             article_datetime == item.publishDatetime
             article_date == IF article_datetime # None
                             THEN DateOf(article_datetime)
                             ELSE item.publishDate
             is_match ==
                 IF cutoff # None
                 THEN IF article_datetime # None
                      THEN article_datetime >= cutoff
                      ELSE article_date >= DateOf(cutoff)
                 ELSE article_date = target_dt
             older ==
                 IF cutoff # None THEN ~is_match
                 ELSE article_date < target_dt
         IN  IF article_date = None
             THEN filter_api_articles_loop(api_items, i + 1, target_dt,
                                           cutoff, matched, found_older)
             ELSE filter_api_articles_loop(
                      api_items, i + 1, target_dt, cutoff,
                      IF is_match
                      THEN Append(matched,
                                  ctee_api_candidate(item, article_date))
                      ELSE matched,
                      found_older \/ older)

\* filter_api_articles(api_items, target_date, cutoff_dt)
filter_api_articles(api_items, target_date, cutoff) ==
    filter_api_articles_loop(api_items, 1, target_date, cutoff, <<>>, FALSE)

\* The candidates in the order the enrichment takes them: api_articles, then
\* candidates_from_html.
ctee_api_part(cands) == SelectSeq(cands, LAMBDA c : c.src = "api")
ctee_html_part(cands) == SelectSeq(cands, LAMBDA c : c.src = "html")

\* The fetch of the HTML page raises: except Exception sets html_found_older
\* to False, and the API loop starts with page 2.
CteeHtmlError ==
    /\ crawler = "ctee" /\ pc = "list" /\ page = 1
    /\ fetches' = fetches + 1
    /\ last_fetch' = "error"
    /\ gap' = http_request(gap)
    /\ NextPage(candidates, 2)
    /\ UNCHANGED <<cutoff_dt, last_page, seen_urls, idx, log, older_seen,
                   repeat_seen>>
    /\ UNCHANGED input_vars
    /\ UNCHANGED filter_vars
    /\ UNCHANGED <<server_vars, pair_vars>>

\* Page 1: fetch_list_page_html and parse_html_list; stop_paging =
\* html_found_older ends the API loop before its first fetch.
CteeHtmlPage ==
    /\ crawler = "ctee" /\ pc = "list" /\ page = 1
    /\ fetches' = fetches + 1
    /\ gap' = http_request(gap)
    /\ \E cards \in SeqsUpTo(CteeCards, MaxCteePageLen) :
          LET cutoff_date == IF cutoff_dt = None THEN None
                             ELSE DateOf(cutoff_dt)
              r == parse_html_list(cards, date, cutoff_date)
          IN  /\ Len(r.articles) <= MaxCteeMatches
              /\ last_fetch' = IF cards = <<>> THEN "empty" ELSE "items"
              /\ IF r.found_older
                 THEN /\ EndScan("STOPPED_BOUNDARY", r.articles)
                      /\ UNCHANGED page
                 ELSE NextPage(r.articles, 2)
    /\ UNCHANGED <<cutoff_dt, last_page, seen_urls, idx, log, older_seen,
                   repeat_seen>>
    /\ UNCHANGED input_vars
    /\ UNCHANGED filter_vars
    /\ UNCHANGED <<server_vars, pair_vars>>

\* except Exception: break, in the API loop
CteeApiError ==
    /\ crawler = "ctee" /\ pc = "list" /\ page >= 2
    /\ fetches' = fetches + 1
    /\ last_fetch' = "error"
    /\ gap' = http_request(sleep(gap))
    /\ EndScan("STOPPED_FETCH_ERROR", candidates)
    /\ UNCHANGED <<cutoff_dt, page, last_page, seen_urls, idx, log,
                   older_seen, repeat_seen>>
    /\ UNCHANGED input_vars
    /\ UNCHANGED filter_vars
    /\ UNCHANGED <<server_vars, pair_vars>>

\* One pass of for page_num in range(2, MAX_PAGES + 1) with a response.
CteeApiPage ==
    /\ crawler = "ctee" /\ pc = "list" /\ page >= 2
    /\ fetches' = fetches + 1
    /\ gap' = http_request(sleep(gap))
    /\ \E items \in SeqsUpTo(CteeItems, MaxCteePageLen) :
          /\ last_fetch' = IF items = <<>> THEN "empty" ELSE "items"
          /\ IF items = <<>>
             THEN /\ EndScan("STOPPED_EMPTY_PAGE", candidates)
                  /\ UNCHANGED page
             ELSE LET r == filter_api_articles(items, date, cutoff_dt)
                      all == ctee_api_part(candidates) \o r.matched
                                 \o ctee_html_part(candidates)
                  IN  /\ Len(all) <= MaxCteeMatches
                      /\ IF r.found_older
                         THEN /\ EndScan("STOPPED_BOUNDARY", all)
                              /\ UNCHANGED page
                         ELSE IF page = MAX_PAGES
                         THEN /\ EndScan("STOPPED_MAX_PAGES", all)
                              /\ UNCHANGED page
                         ELSE NextPage(all, page + 1)
    /\ UNCHANGED <<cutoff_dt, last_page, seen_urls, idx, log, older_seen,
                   repeat_seen>>
    /\ UNCHANGED input_vars
    /\ UNCHANGED filter_vars
    /\ UNCHANGED <<server_vars, pair_vars>>

\* ---------------------------------------------------------- enrichment
udn_row(candidate) ==
    [Date |-> candidate.date_str, Time |-> candidate.time_str,
     url |-> candidate.url]

\* The end of one pass of the enrichment loop: the try block appended a row
\* or hit continue, or the except clause logged the failure; the loop goes
\* on to the next candidate and the table is returned after the last one.
EnrichStep_abort(event, rows) ==
    /\ log' = Append(log, event)
    /\ results' = rows
    /\ idx' = idx + 1
    /\ IF event = "failed"
       THEN pc' = "done" /\ outcome' = "raised" /\ UNCHANGED df
       ELSE IF idx = Len(candidates)
       THEN /\ pc' = "done" /\ outcome' = "returned"
            /\ df' = returned_df(crawler, rows)
       ELSE UNCHANGED <<pc, outcome, df>>
EnrichStep(event, rows) ==
    /\ log' = Append(log, event)
    /\ results' = rows
    /\ idx' = idx + 1
    /\ IF idx = Len(candidates)
       THEN /\ pc' = "done" /\ outcome' = "returned"
            /\ df' = returned_df(crawler, rows)
       ELSE UNCHANGED <<pc, outcome, df>>

\* for i, candidate in enumerate(candidates): one pass; _fetch_article_content
\* returns or raises.
UdnEnrich ==
    /\ crawler = "udn" /\ pc = "enrich"
    /\ gap' = http_request(IF idx > 1 THEN sleep(gap) ELSE gap)
    /\ \E raised \in BOOLEAN :
          IF raised
          THEN EnrichStep("failed", results)
          ELSE EnrichStep("ok", Append(results, udn_row(candidates[idx])))
    /\ UNCHANGED <<cutoff_dt, scan, page, last_page, candidates, seen_urls,
                   fetches, older_seen, repeat_seen, last_fetch>>
    /\ UNCHANGED input_vars
    /\ UNCHANGED filter_vars
    /\ UNCHANGED <<server_vars, pair_vars>>

\* for candidate in all_candidates: one pass; fetch_article_detail returns the
\* article page's timestamp (None when it has none that parses) or raises.
PttEnrich ==
    /\ crawler = "ptt" /\ pc = "enrich"
    /\ \E raised \in BOOLEAN, full_dt \in {None} \cup Stamps :
          LET url == candidates[idx].url
              event == ptt_enrich_event(url, raised, full_dt, cutoff_dt, date)
          IN  /\ gap' = IF event = "no_url" THEN gap
                        ELSE http_request(sleep(gap))
              /\ IF event = "ok"
                 THEN EnrichStep(event,
                          Append(results, ptt_row(url, full_dt, date)))
                 ELSE EnrichStep(event, results)
    /\ UNCHANGED <<cutoff_dt, scan, page, last_page, candidates, seen_urls,
                   fetches, older_seen, repeat_seen, last_fetch>>
    /\ UNCHANGED input_vars
    /\ UNCHANGED filter_vars
    /\ UNCHANGED <<server_vars, pair_vars>>

\* The row ctee_news_crawler appends for a candidate.
\* published is not a column: it is the instant the article page was
\* published at (None when the page gives no time), of which the crawler
\* sees the time of day only.
ctee_row(url, article_date_str, article_time, published) ==
    [Date |-> article_date_str, Time |-> article_time, url |-> url,
     published |-> published]

\* _parse_article_datetime(time_str, fallback_date): the time of day put on
\* the fallback date.
parse_article_datetime(time_str, fallback_date) ==
    IF time_str = None THEN None ELSE fallback_date * 24 + time_str

\* What one pass of the two enrichment loops does with a candidate whose
\* article page was published at the instant published (None: the page gives
\* no time); only the time of day of it reaches the crawler.
ctee_article_time(cand, published) ==
    IF published # None THEN TimeOf(published)
    ELSE IF cand.src = "api" /\ cand.publishDatetime # None
    THEN TimeOf(cand.publishDatetime)
    ELSE None
ctee_article_date(cand, d) ==
    IF cand.src = "api" /\ cand.article_date # None THEN cand.article_date
    ELSE d
ctee_enrich_event(cand, all_urls, raised, published, naive_cutoff, d) ==
    LET art_dt == parse_article_datetime(ctee_article_time(cand, published),
                                         ctee_article_date(cand, d))
    IN  IF cand.url \in all_urls THEN "duplicate"
        ELSE IF raised THEN "failed"
        ELSE IF naive_cutoff # None /\ art_dt # None /\ art_dt < naive_cutoff
        THEN "too_old"
        ELSE "ok"

\* for item in api_articles: ... for item in candidates_from_html: one pass;
\* fetch_article_content returns or raises.
CteeEnrich ==
    /\ crawler = "ctee" /\ pc = "enrich"
    /\ \E raised \in BOOLEAN, published \in {None} \cup Stamps :
          LET cand == candidates[idx]
              event == ctee_enrich_event(cand, seen_urls, raised, published,
                                         cutoff_dt, date)
          IN  /\ seen_urls' = seen_urls \cup {cand.url}
              /\ gap' = IF event = "duplicate" THEN gap
                        ELSE http_request(sleep(gap))
              /\ IF event = "ok"
                 THEN EnrichStep(event,
                          Append(results,
                                 ctee_row(cand.url,
                                          ctee_article_date(cand, date),
                                          ctee_article_time(cand, published),
                                          published)))
                 ELSE EnrichStep(event, results)
    /\ UNCHANGED <<cutoff_dt, scan, page, last_page, candidates, fetches,
                   older_seen, repeat_seen, last_fetch>>
    /\ UNCHANGED input_vars
    /\ UNCHANGED filter_vars
    /\ UNCHANGED <<server_vars, pair_vars>>

Next ==
    \/ Start
    \/ CnyesFetchError
    \/ CnyesPage
    \/ UdnFetchError
    \/ UdnPage
    \/ UdnEnrich
    \/ PttFetchError
    \/ PttPage
    \/ PttEnrich
    \/ CteeHtmlError
    \/ CteeHtmlPage
    \/ CteeApiError
    \/ CteeApiPage
    \/ CteeEnrich

Spec == Init /\ [][Next]_vars

\* The crawl is a single thread that runs on until it returns, against a
\* source that answers anything.
NextFair ==
    \/ Start
    \/ CnyesFetchError
    \/ CnyesPage
    \/ UdnFetchError
    \/ UdnPage
    \/ UdnEnrich
    \/ PttFetchError
    \/ PttPageLoop
    \/ PttEnrich
    \/ CteeHtmlError
    \/ CteeHtmlPage
    \/ CteeApiError
    \/ CteeApiPage
    \/ CteeEnrich

SpecFair == Init /\ [][NextFair]_vars /\ WF_vars(NextFair)

\* ------------------------------------------------- the clock moves on
\* The crawl of the hours mode with time passing while it runs: between two
\* steps of the crawler (during time.sleep, during a request) the clock may
\* advance.  The crawler is called with today's date.
CallClock == CHOOSE c \in Clocks : TRUE

InitClock ==
    /\ Init
    /\ hours # None
    /\ date = DateOf(clock)

\* Time passes; nothing of the invocation's state follows the clock.
Tick_reread ==
    /\ pc \in {"list", "enrich"}
    /\ clock < CallClock + MaxElapsed
    /\ clock' = clock + 1
    /\ cutoff_dt' = clock' - hours
    /\ UNCHANGED <<pc, scan, page, last_page, candidates, seen_urls, idx, log,
                   results, outcome, df, fetches, older_seen, repeat_seen,
                   last_fetch, gap>>
    /\ UNCHANGED <<crawler, date, hours>>
    /\ UNCHANGED filter_vars
    /\ UNCHANGED <<server_vars, pair_vars>>
Tick ==
    /\ pc \in {"list", "enrich"}
    /\ clock < CallClock + MaxElapsed
    /\ clock' = clock + 1
    /\ UNCHANGED <<cutoff_dt, pc, scan, page, last_page, candidates,
                   seen_urls, idx, log, results, outcome, df, fetches,
                   older_seen, repeat_seen, last_fetch, gap>>
    /\ UNCHANGED <<crawler, date, hours>>
    /\ UNCHANGED filter_vars
    /\ UNCHANGED <<server_vars, pair_vars>>

NextClock ==
    \/ Next
    \/ Tick

SpecClock == InitClock /\ [][NextClock]_vars

\* ------------------------------------------------ the filters on their own
\* The page filters applied once to an arbitrary short page, with publish
\* times on both sides of the midnight that starts day 366.
FilterStamps == (366 * 24 - Span)..(366 * 24 + Span)
FilterTargets == {365, 366}
FilterHours == {2}
FilterIds == {1, 2, 3}

CnyesFilterItems ==
    [newsId : FilterIds,
     publishAt : {None} \cup {w - TW_TZ : w \in FilterStamps}]
UdnFilterArticles == [url : FilterIds \X {0}, datePublished : FilterStamps]

\* A page lists an article once.
CnyesFilterPages ==
    {p \in SeqsUpTo(CnyesFilterItems, MaxItems) :
        \A i, j \in 1..Len(p) : p[i].newsId = p[j].newsId => i = j}
UdnFilterPages ==
    {p \in SeqsUpTo(UdnFilterArticles, MaxItems) :
        \A i, j \in 1..Len(p) : p[i].url = p[j].url => i = j}

InitFilter ==
    /\ crawler \in {"cnyes", "udn", "ptt", "ctee"}
    /\ hours \in {None} \cup FilterHours
    /\ clock \in FilterStamps
    /\ hours = None => clock = 366 * 24
    /\ date \in FilterTargets
    /\ hours # None => date = DateOf(clock)
    /\ cutoff_dt = IF hours = None THEN None ELSE clock - hours
    /\ in_items \in IF crawler = "cnyes" THEN CnyesFilterPages
                    ELSE IF crawler = "udn" THEN UdnFilterPages
                    ELSE IF crawler = "ptt"
                    THEN SeqsUpTo(PttEntries, MaxPageLen)
                    ELSE SeqsUpTo(CteeCards, MaxPageLen)
    /\ applied = "none"
    /\ out = <<>>
    /\ pc = "filter"
    /\ scan = "SCANNING"
    /\ page = 1
    /\ last_page = 1
    /\ candidates = <<>>
    /\ seen_urls = {}
    /\ idx = 1
    /\ log = <<>>
    /\ results = <<>>
    /\ outcome = "running"
    /\ df = NoDf
    /\ fetches = 0
    /\ older_seen = FALSE
    /\ repeat_seen = FALSE
    /\ last_fetch = "none"
    /\ gap = "none"
    /\ NoServer
    /\ NoPair

crawl_vars == <<cutoff_dt, pc, scan, page, last_page, candidates, seen_urls,
                idx, log, results, outcome, df, fetches, older_seen,
                repeat_seen, last_fetch, gap>>

\* matched, found_older = parse_news_items(news_list, date, cutoff_dt=cutoff_dt)
ApplyParseNewsItems ==
    /\ pc = "filter" /\ crawler = "cnyes" /\ applied = "none"
    /\ applied' = "parse_news_items"
    /\ out' = parse_news_items(in_items, date, cutoff_dt)
    /\ UNCHANGED <<in_items, crawl_vars, input_vars, server_vars, pair_vars>>

\* The scan of one page by _collect_candidates_from_pages, nothing collected
\* before it.
ApplyUdnScanPage ==
    /\ pc = "filter" /\ crawler = "udn" /\ applied = "none"
    /\ applied' = "udn_scan_page"
    /\ out' = udn_scan_page(in_items, date, cutoff_dt, <<>>, {})
    /\ UNCHANGED <<in_items, crawl_vars, input_vars, server_vars, pair_vars>>

\* cutoff_date = cutoff_dt.date() if cutoff_dt else None
cutoff_date_of(cutoff) == IF cutoff = None THEN None ELSE DateOf(cutoff)

\* matched, found_older = parse_list_articles(soup, date, target_year,
\*                                            cutoff_date=cutoff_date)
ApplyParseListArticles ==
    /\ pc = "filter" /\ crawler = "ptt" /\ applied = "none"
    /\ applied' = "parse_list_articles"
    /\ out' = parse_list_articles(in_items, date, YearOf(date),
                                  cutoff_date_of(cutoff_dt))
    /\ UNCHANGED <<in_items, crawl_vars, input_vars, server_vars, pair_vars>>

\* html_articles, html_found_older = parse_html_list(html, date,
\*                                                   cutoff_date=cutoff_date)
ApplyParseHtmlList ==
    /\ pc = "filter" /\ crawler = "ctee" /\ applied = "none"
    /\ applied' = "parse_html_list"
    /\ out' = parse_html_list(in_items, date, cutoff_date_of(cutoff_dt))
    /\ UNCHANGED <<in_items, crawl_vars, input_vars, server_vars, pair_vars>>

NextFilter ==
    \/ ApplyParseNewsItems
    \/ ApplyUdnScanPage
    \/ ApplyParseListArticles
    \/ ApplyParseHtmlList

SpecFilter == InitFilter /\ [][NextFilter]_vars

\* ------------------------------------------------------------ the server
\* CRAWLERS = {"twse": ..., "tpex": ..., "taifex": ..., "faoi": ..., "mgts": ...}
CRAWLERS == {"twse", "tpex", "taifex", "faoi", "mgts"}
\* The news endpoints, each calling one news crawler with date and hours.
NEWS_ENDPOINTS == {"ctee_news", "cnyes_news", "ptt_news", "moneyudn_news"}
\* hours: Query(ge=1, le=72)
MIN_HOURS == 1
MAX_HOURS == 72

\* df.to_dict(orient="records") of the tables a crawler may return, the
\* messages of the exceptions it may raise, and the query parameters.
Tables == {<<>>, <<1>>}
Messages == {"connection error"}
RequestDates == {None, 365}
RequestHours == {None, 0, 1, 72, 73}

\* What a crawler call comes to: it returns a table or raises.
Outcomes ==
    [state : {"returned"}, df : Tables] \cup
    [state : {"raised"}, error : Messages]

\* _get_date: the date parameter, today's date when it is absent.
get_date(d) == IF d = None THEN DateOf(clock) ELSE d

Requests ==
    {r \in [endpoint : {"/"} \cup CRAWLERS \cup NEWS_ENDPOINTS,
            date : RequestDates, hours : RequestHours] :
        r.endpoint \notin NEWS_ENDPOINTS => r.hours = None}

InitServer ==
    /\ request \in Requests
    /\ futures = <<>>
    /\ data = <<>>
    /\ response = NoResponse
    /\ calls = {}
    /\ crawler = "none"
    /\ date = 366
    /\ hours = None
    /\ clock \in Clocks
    /\ cutoff_dt = None
    /\ pc = "serve"
    /\ scan = "SCANNING"
    /\ page = 1
    /\ last_page = 1
    /\ candidates = <<>>
    /\ seen_urls = {}
    /\ idx = 1
    /\ log = <<>>
    /\ results = <<>>
    /\ outcome = "running"
    /\ df = NoDf
    /\ fetches = 0
    /\ older_seen = FALSE
    /\ repeat_seen = FALSE
    /\ last_fetch = "none"
    /\ gap = "none"
    /\ NoFilter
    /\ NoPair

\* The variables a request leaves alone.
not_server_vars == <<crawl_vars, input_vars, filter_vars, pair_vars>>

\* _run_crawler: try: df = CRAWLERS[name](date); return {"date", "data"}
\* except Exception as e: return {"date", "error": str(e)}
run_crawler_reraise(d, result) ==
    IF result.state = "returned"
    THEN [status |-> 200, body |-> [date |-> d, data |-> result.df]]
    ELSE [status |-> 500]
run_crawler(d, result) ==
    IF result.state = "returned"
    THEN [status |-> 200, body |-> [date |-> d, data |-> result.df]]
    ELSE [status |-> 200, body |-> [date |-> d, error |-> result.error]]

\* GET /twse, /tpex, /taifex, /faoi, /mgts
CrawlSingle ==
    /\ pc = "serve" /\ response = NoResponse
    /\ request.endpoint \in CRAWLERS
    /\ \E result \in Outcomes :
          /\ futures' = [n \in {request.endpoint} |-> result]
          /\ response' = run_crawler(get_date(request.date), result)
    /\ calls' = {<<request.endpoint, get_date(request.date)>>}
    /\ UNCHANGED <<request, data>>
    /\ UNCHANGED not_server_vars

\* crawl_all: executor.submit(crawler, date) for every entry of CRAWLERS.
Submit ==
    /\ pc = "serve" /\ response = NoResponse
    /\ request.endpoint = "/" /\ futures = <<>>
    /\ futures' = [n \in CRAWLERS |-> [state |-> "running"]]
    /\ calls' = {<<n, get_date(request.date)>> : n \in CRAWLERS}
    /\ UNCHANGED <<request, data, response>>
    /\ UNCHANGED not_server_vars

\* A worker thread's crawler call returns or raises.
WorkerDone(name) ==
    /\ request.endpoint = "/" /\ name \in DOMAIN futures
    /\ futures[name].state = "running"
    /\ \E result \in Outcomes : futures' = [futures EXCEPT ![name] = result]
    /\ UNCHANGED <<request, data, response, calls>>
    /\ UNCHANGED not_server_vars

\* results[name] = df.to_dict(orient="records"), or {"error": str(e)} when
\* future.result() raises.
entry_of(result) ==
    IF result.state = "returned" THEN [rows |-> result.df]
    ELSE [error |-> result.error]

\* One pass of for future in as_completed(future_to_name).
Collect_unguarded(name) ==
    /\ request.endpoint = "/" /\ response = NoResponse
    /\ name \in DOMAIN futures /\ name \notin DOMAIN data
    /\ futures[name].state # "running"
    /\ IF futures[name].state = "raised"
       THEN /\ response' = [status |-> 500]
            /\ UNCHANGED data
       ELSE /\ data' = [n \in DOMAIN data \cup {name} |->
                           IF n = name THEN entry_of(futures[name])
                           ELSE data[n]]
            /\ UNCHANGED response
    /\ UNCHANGED <<request, futures, calls>>
    /\ UNCHANGED not_server_vars
Collect(name) ==
    /\ request.endpoint = "/" /\ response = NoResponse
    /\ name \in DOMAIN futures /\ name \notin DOMAIN data
    /\ futures[name].state # "running"
    /\ data' = [n \in DOMAIN data \cup {name} |->
                   IF n = name THEN entry_of(futures[name]) ELSE data[n]]
    /\ UNCHANGED <<request, futures, response, calls>>
    /\ UNCHANGED not_server_vars

\* return {"date": date, "data": results}, every future being collected.
RespondAll ==
    /\ request.endpoint = "/" /\ response = NoResponse
    /\ futures # <<>> /\ DOMAIN data = DOMAIN futures
    /\ response' = [status |-> 200,
                    body |-> [date |-> get_date(request.date), data |-> data]]
    /\ UNCHANGED <<request, futures, data, calls>>
    /\ UNCHANGED not_server_vars

\* The response of a news endpoint whose crawler call came to result.
news_response(d, h, result) ==
    IF h = None THEN run_crawler(d, result)
    ELSE IF result.state = "returned"
    THEN [status |-> 200,
          body |-> [date |-> d, hours |-> h, data |-> result.df]]
    ELSE [status |-> 200,
          body |-> [date |-> d, hours |-> h, error |-> result.error]]

\* The validation of the hours parameter.
hours_valid_open(h) == TRUE
hours_valid(h) == h = None \/ (MIN_HOURS <= h /\ h <= MAX_HOURS)

\* GET /ctee_news, /cnyes_news, /ptt_news, /moneyudn_news
CrawlNews ==
    /\ pc = "serve" /\ response = NoResponse
    /\ request.endpoint \in NEWS_ENDPOINTS
    /\ IF ~hours_valid(request.hours)
       THEN /\ response' = [status |-> 422]
            /\ UNCHANGED <<futures, calls>>
       ELSE /\ \E result \in Outcomes :
                  /\ futures' = [n \in {request.endpoint} |-> result]
                  /\ response' = news_response(get_date(request.date),
                                               request.hours, result)
            /\ calls' = {<<request.endpoint, get_date(request.date),
                           request.hours>>}
    /\ UNCHANGED <<request, data>>
    /\ UNCHANGED not_server_vars

NextServer ==
    \/ CrawlSingle
    \/ Submit
    \/ \E name \in CRAWLERS : WorkerDone(name)
    \/ \E name \in CRAWLERS : Collect(name)
    \/ RespondAll
    \/ CrawlNews

SpecServer == InitServer /\ [][NextServer]_vars


\* ------------------------------------------------- FAOI and MGTS parsing
\* A table is its list of column names and its number of rows; raised tells
\* that the call raised instead of returning one.  The Chinese field names of
\* an upstream response are numbered as zh2en_columns() of faoi.py lists
\* them, 0 being a field name it does not list.  A data row is its number of
\* cells and whether every cell to be converted holds digits and commas.
Table(columns, rows) == [raised |-> FALSE, columns |-> columns, rows |-> rows]
Raised == [raised |-> TRUE, columns |-> <<>>, rows |-> 0]

\* faoi.en_columns()
faoi_en_columns ==
    <<"SecurityCode", "StockName",
      "ForeignInvestorsTotalBuy", "ForeignInvestorsTotalSell",
      "ForeignInvestorsDifference",
      "ForeignDealersTotalBuy", "ForeignDealersTotalSell",
      "ForeignDealersDifference",
      "SecuritiesInvestmentTotalBuy", "SecuritiesInvestmentTotalSell",
      "SecuritiesInvestmentDifference",
      "DealersDifference",
      "DealersProprietaryTotalBuy", "DealersProprietaryTotalSell",
      "DealersProprietaryDifference",
      "DealersHedgeTotalBuy", "DealersHedgeTotalSell",
      "DealersHedgeDifference",
      "TotalDifference">>

\* faoi.zh2en_columns(): the English name of the Chinese field name number k
faoi_zh2en_columns ==
    <<"SecurityCode", "StockName",
      "ForeignInvestorsTotalBuy", "ForeignInvestorsTotalSell",
      "ForeignInvestorsDifference",
      "ForeignDealersTotalBuy", "ForeignDealersTotalSell",
      "ForeignDealersDifference",
      "SecuritiesInvestmentTotalBuy", "SecuritiesInvestmentTotalSell",
      "SecuritiesInvestmentDifference",
      "Dealers Difference",
      "DealersProprietaryTotalBuy", "DealersProprietaryTotalSell",
      "DealersProprietaryDifference",
      "DealersHedgeTotalBuy", "DealersHedgeTotalSell",
      "DealersHedgeDifference",
      "Total Difference">>

\* The columns post_process of faoi.py reads and converts to int.
faoi_converted ==
    {"ForeignInvestorsTotalBuy", "ForeignInvestorsTotalSell",
     "ForeignInvestorsDifference",
     "ForeignDealersTotalBuy", "ForeignDealersTotalSell",
     "ForeignDealersDifference",
     "SecuritiesInvestmentTotalBuy", "SecuritiesInvestmentTotalSell",
     "SecuritiesInvestmentDifference",
     "Dealers Difference",
     "DealersProprietaryTotalBuy", "DealersProprietaryTotalSell",
     "DealersProprietaryDifference",
     "DealersHedgeTotalBuy", "DealersHedgeTotalSell",
     "DealersHedgeDifference",
     "Total Difference"}

\* mgts.en_columns()
mgts_en_columns ==
    <<"SecurityCode", "StockName", "MarginPurchase", "MarginSales",
      "CashRedemption", "MarginPurchaseBalanceOfPreviousDay",
      "MarginPurchaseBalanceOfTheDay", "MarginPurchaseQuotaForTheNextDay",
      "ShortCovering", "ShortSale", "StockRedemption",
      "ShortSaleBalanceOfPreviousDay", "ShortSaleBalanceOfTheDay",
      "ShortSaleQuotaForTheNextDay",
      "OffsettingOfMarginPurchasesAndShortSales", "Note">>

Range(f) == {f[i] : i \in DOMAIN f}

\* pd.DataFrame(columns=fields, data=data): every row must have one cell for
\* each column.
data_frame_ok(fields, rows) ==
    \A i \in 1..Len(rows) : rows[i].width = Len(fields)
\* .map(remove_comma).astype(int) over a column: every cell must be a number.
all_numeric(rows) == \A i \in 1..Len(rows) : rows[i].clean

\* df.rename(columns=zh2en_columns()): a listed name is translated, any other
\* name stays.
faoi_rename(fields) ==
    [i \in 1..Len(fields) |->
        IF fields[i] \in DOMAIN faoi_zh2en_columns
        THEN faoi_zh2en_columns[fields[i]] ELSE "?"]

\* faoi.post_process
faoi_post_process(fields, rows) ==
    LET columns == faoi_rename(fields)
    IN  IF ~(faoi_converted \subseteq Range(columns)) THEN Raised
        ELSE IF ~all_numeric(rows) THEN Raised
        ELSE Table(<<"Date">> \o columns, Len(rows))

\* faoi.gen_empty_date_df
faoi_gen_empty_date_df_no_date == Table(faoi_en_columns, 0)
faoi_gen_empty_date_df == Table(<<"Date">> \o faoi_en_columns, 0)

\* faoi.parse_faoi_data
parse_faoi_data(resp) ==
    IF resp.stat = "OK"
    THEN IF ~data_frame_ok(resp.fields, resp.data) THEN Raised
         ELSE faoi_post_process(resp.fields, resp.data)
    ELSE faoi_gen_empty_date_df

\* mgts.post_process: df.columns = en_columns() needs as many names as the
\* frame has columns.
mgts_post_process(fields, rows) ==
    IF Len(fields) # Len(mgts_en_columns) THEN Raised
    ELSE IF ~all_numeric(rows) THEN Raised
    ELSE Table(<<"Date">> \o mgts_en_columns, Len(rows))

\* mgts.gen_empty_date_df
mgts_gen_empty_date_df == Table(<<"Date">> \o mgts_en_columns, 0)

\* mgts.parse_mgts_data
parse_mgts_data(resp) ==
    IF resp.stat = "OK"
    THEN IF ~data_frame_ok(resp.fields, resp.data) THEN Raised
         ELSE mgts_post_process(resp.fields, resp.data)
    ELSE mgts_gen_empty_date_df

\* The upstream responses: stat, and the fields and data of the table read.
Stats == {"OK", "no data"}
FaoiFields == {[i \in 1..19 |-> i], [i \in 1..18 |-> i], <<>>}
MgtsFields == {[i \in 1..16 |-> i], [i \in 1..15 |-> i], <<>>}
DataRows == [width : {16, 19}, clean : BOOLEAN]
FaoiResponses ==
    [stat : Stats, fields : FaoiFields, data : SeqsUpTo(DataRows, MaxPageLen)]
MgtsResponses ==
    [stat : Stats, fields : MgtsFields, data : SeqsUpTo(DataRows, MaxPageLen)]

InitMarket ==
    /\ crawler \in {"faoi", "mgts"}
    /\ date \in Targets
    /\ in_items \in IF crawler = "faoi" THEN FaoiResponses ELSE MgtsResponses
    /\ applied = "none"
    /\ out = <<>>
    /\ hours = None
    /\ clock \in Clocks
    /\ cutoff_dt = None
    /\ pc = "parse"
    /\ scan = "SCANNING"
    /\ page = 1
    /\ last_page = 1
    /\ candidates = <<>>
    /\ seen_urls = {}
    /\ idx = 1
    /\ log = <<>>
    /\ results = <<>>
    /\ outcome = "running"
    /\ df = NoDf
    /\ fetches = 0
    /\ older_seen = FALSE
    /\ repeat_seen = FALSE
    /\ last_fetch = "none"
    /\ gap = "none"
    /\ NoServer
    /\ NoPair

\* df = parse_faoi_data(response, date)
ApplyParseFaoi ==
    /\ pc = "parse" /\ crawler = "faoi" /\ applied = "none"
    /\ applied' = "parse_faoi_data"
    /\ out' = parse_faoi_data(in_items)
    /\ UNCHANGED <<in_items, crawl_vars, input_vars, server_vars, pair_vars>>

\* df = parse_mgts_data(response, date)
ApplyParseMgts ==
    /\ pc = "parse" /\ crawler = "mgts" /\ applied = "none"
    /\ applied' = "parse_mgts_data"
    /\ out' = parse_mgts_data(in_items)
    /\ UNCHANGED <<in_items, crawl_vars, input_vars, server_vars, pair_vars>>

NextMarket ==
    \/ ApplyParseFaoi
    \/ ApplyParseMgts

SpecMarket == InitMarket /\ [][NextMarket]_vars


\* ------------------------------------------------- two invocations at once
\* Two calls of _collect_candidates_from_pages run interleaved, a pass of the
\* page loop at a time, against one source.  Each call has its own arguments
\* and its own locals: candidates = [] and seen_urls = set() are created in
\* the function body (moneyudn_news.py 294-295), the page cursor is its loop
\* variable.  feed is what the source serves: page p of the listing is
\* feed[p], and a request for a page beyond it fails.
PairArticles ==
    {a \in UdnArticles :
        \/ a = [url |-> <<1, 0>>, datePublished |-> 365 * 24 + 1]
        \/ a = [url |-> <<2, 0>>, datePublished |-> 365 * 24 + 1]
        \/ a = [url |-> <<1, 0>>, datePublished |-> 364 * 24 + 1]}
Feeds == SeqsUpTo(SeqsUpTo(PairArticles, MaxFeedPageLen), MaxFeedLen)

\* (target_date, cutoff_dt) of a call: date mode, or hours mode.
PairCalls == {<<365, None>>, <<366, None>>, <<366, 365 * 24 + 1>>}

\* The locals of a call as it enters the page loop.
collect_entry(target_date, cutoff) ==
    [target_date |-> target_date, cutoff_dt |-> cutoff, page |-> 1,
     candidates |-> <<>>, seen_urls |-> {}, scan |-> "SCANNING"]

\* One pass of for page in range(1, MAX_LIST_PAGES + 1) of a call with the
\* locals inv, seen being the dedup set it consults.
collect_pass(pages, inv, seen) ==
    IF inv.page > Len(pages)
    THEN [inv EXCEPT !.scan = "STOPPED_FETCH_ERROR"]
    ELSE IF pages[inv.page] = <<>>
    THEN [inv EXCEPT !.scan = "STOPPED_EMPTY_PAGE"]
    ELSE LET st == udn_scan_page(pages[inv.page], inv.target_date,
                                 inv.cutoff_dt, inv.candidates, seen)
             got == [inv EXCEPT !.candidates = st.candidates,
                                !.seen_urls = st.seen_urls]
         IN  IF st.passed_target
             THEN [got EXCEPT !.scan = "STOPPED_BOUNDARY"]
             ELSE IF inv.page = MAX_LIST_PAGES
             THEN [got EXCEPT !.scan = "STOPPED_MAX_PAGES"]
             ELSE [got EXCEPT !.page = @ + 1]

\* The call run on its own, from entry to return.
RECURSIVE collect_candidates_from_pages(_, _)
collect_candidates_from_pages(pages, inv) ==
    IF inv.scan # "SCANNING" THEN inv
    ELSE collect_candidates_from_pages(
             pages, collect_pass(pages, inv, inv.seen_urls))

\* The dedup set call i consults: its local seen_urls.
pair_seen_urls_module_level(i) == UNION {invs[j].seen_urls : j \in 1..2}
pair_seen_urls(i) == invs[i].seen_urls

InitPair ==
    /\ feed \in Feeds
    /\ \E c1, c2 \in PairCalls :
          invs = <<collect_entry(c1[1], c1[2]), collect_entry(c2[1], c2[2])>>
    /\ crawler = "udn"
    /\ date = 366
    /\ hours = None
    /\ clock \in {366 * 24 + 1}
    /\ cutoff_dt = None
    /\ pc = "pair"
    /\ scan = "SCANNING"
    /\ page = 1
    /\ last_page = 1
    /\ candidates = <<>>
    /\ seen_urls = {}
    /\ idx = 1
    /\ log = <<>>
    /\ results = <<>>
    /\ outcome = "running"
    /\ df = NoDf
    /\ fetches = 0
    /\ older_seen = FALSE
    /\ repeat_seen = FALSE
    /\ last_fetch = "none"
    /\ gap = "none"
    /\ NoFilter
    /\ NoServer

\* Call i makes its next pass of the page loop.
PairStep(i) ==
    /\ pc = "pair"
    /\ invs[i].scan = "SCANNING"
    /\ invs' = [invs EXCEPT ![i] = collect_pass(feed, invs[i],
                                                pair_seen_urls(i))]
    /\ UNCHANGED <<feed, crawl_vars, input_vars, filter_vars, server_vars>>

NextPair ==
    \/ PairStep(1)
    \/ PairStep(2)

SpecPair == InitPair /\ [][NextPair]_vars


\* ------------------------------------------- a listing sorted newest-first
\* The date-mode scan of CNYES and of MoneyUDN over a whole listing: listed
\* is the listing, newest first, every item with a publish time, and the
\* source serves it in pages of page_size items; beyond the last item it
\* answers with an empty page.
ListedItems ==
    [id : {1, 2},
     at : {364 * 24 + 23, 365 * 24 + 1, 365 * 24 + 23, 366 * 24 + 1}]
SortedListings ==
    {l \in SeqsUpTo(ListedItems, MaxListed) :
        \A i \in 1..(Len(l) - 1) : l[i].at >= l[i + 1].at}

\* What the item is in a CNYES response and in a MoneyUDN page.
cnyes_item(it) == [newsId |-> it.id, publishAt |-> it.at - TW_TZ]
udn_article(it) == [url |-> <<it.id, 0>>, datePublished |-> it.at]

PagesOf(l, page_size) ==
    [p \in 1..((Len(l) + page_size - 1) \div page_size) |->
        SubSeq(l, (p - 1) * page_size + 1,
               IF p * page_size < Len(l) THEN p * page_size ELSE Len(l))]
cnyes_pages(pages) ==
    [p \in 1..Len(pages) |->
        [i \in 1..Len(pages[p]) |-> cnyes_item(pages[p][i])]]
udn_pages(pages) ==
    [p \in 1..Len(pages) |->
        [i \in 1..Len(pages[p]) |-> udn_article(pages[p][i])]]

\* cnyes_news_crawler's while page <= last_page, against the pages and the
\* last_page lp the page-1 response reports.
RECURSIVE cnyes_scan(_, _, _, _)
cnyes_scan(pages, lp, target_date, st) ==
    IF st.scan # "SCANNING" THEN st
    ELSE IF st.page > st.last_page
    THEN [st EXCEPT !.scan = "STOPPED_MAX_PAGES"]
    ELSE LET news_list == IF st.page <= Len(pages) THEN pages[st.page]
                          ELSE <<>>
             r == parse_news_items(news_list, target_date, None)
             got == [st EXCEPT
                       !.last_page = IF st.page = 1 THEN lp ELSE @,
                       !.all_articles = @ \o r.matched]
         IN  IF news_list = <<>>
             THEN [st EXCEPT !.scan = "STOPPED_EMPTY_PAGE"]
             ELSE IF r.found_older
             THEN [got EXCEPT !.scan = "STOPPED_BOUNDARY"]
             ELSE cnyes_scan(pages, lp, target_date,
                             [got EXCEPT !.page = @ + 1])

InitFeed ==
    /\ crawler \in {"cnyes", "udn"}
    /\ date \in Targets
    /\ hours = None
    /\ clock \in Clocks
    /\ in_items \in SortedListings
    /\ \E page_size \in 1..MaxPageLen :
          feed = PagesOf(in_items, page_size)
    /\ last_page \in IF crawler = "cnyes" THEN 1..MaxLastPage ELSE {1}
    /\ applied = "none"
    /\ out = <<>>
    /\ invs = <<>>
    /\ cutoff_dt = None
    /\ pc = "feed"
    /\ scan = "SCANNING"
    /\ page = 1
    /\ candidates = <<>>
    /\ seen_urls = {}
    /\ idx = 1
    /\ log = <<>>
    /\ results = <<>>
    /\ outcome = "running"
    /\ df = NoDf
    /\ fetches = 0
    /\ older_seen = FALSE
    /\ repeat_seen = FALSE
    /\ last_fetch = "none"
    /\ gap = "none"
    /\ NoServer

\* The listing loop of cnyes_news_crawler run to its end.
ScanCnyes ==
    /\ pc = "feed" /\ crawler = "cnyes" /\ applied = "none"
    /\ applied' = "cnyes_scan"
    /\ out' = cnyes_scan(cnyes_pages(feed), last_page, date,
                         [scan |-> "SCANNING", page |-> 1, last_page |-> 1,
                          all_articles |-> <<>>])
    /\ UNCHANGED <<in_items, crawl_vars, input_vars, server_vars, pair_vars>>

\* candidates = _collect_candidates_from_pages(session, target_date)
ScanUdn ==
    /\ pc = "feed" /\ crawler = "udn" /\ applied = "none"
    /\ applied' = "collect_candidates_from_pages"
    /\ out' = collect_candidates_from_pages(udn_pages(feed) \o << <<>> >>,
                                            collect_entry(date, None))
    /\ UNCHANGED <<in_items, crawl_vars, input_vars, server_vars, pair_vars>>

NextFeed ==
    \/ ScanCnyes
    \/ ScanUdn

SpecFeed == InitFeed /\ [][NextFeed]_vars


\* ================================================================ claims

\* C1 (boundary monotonicity, date mode): once a processed listing page has
\* held an item dated strictly before the target date, no further listing
\* page is requested.  Stated for every crawler.
C1_NoFetchAfterOlder == [][older_seen => fetches' = fetches]_vars

\* The same for CNYES and MoneyUDN alone, which compare full dates.
C1_NoFetchAfterOlder_CnyesUdn ==
    [][(crawler \in {"cnyes", "udn"} /\ older_seen) => fetches' = fetches]_vars

UrlsOf(rows) == [i \in 1..Len(rows) |-> rows[i].url]
NoDuplicateUrl(rows) ==
    \A i, j \in 1..Len(rows) : rows[i].url = rows[j].url => i = j

\* C2 (partial-failure containment): when the fetch of a listing page fails,
\* the scan of CNYES, MoneyUDN and PTT ends without raising and keeps exactly
\* what was gathered from the pages before it: nothing when the first fetch
\* fails; CNYES returns just that as its table.
C2_FetchErrorKeepsCandidates ==
    [][(scan = "SCANNING" /\ scan' = "STOPPED_FETCH_ERROR") =>
          /\ candidates' = candidates
          /\ outcome' # "raised"
          /\ pc' \in {"enrich", "done"}
          /\ fetches = 0 => candidates' = <<>>
          /\ crawler = "cnyes" =>
                (pc' = "done" /\ outcome' = "returned"
                              /\ results' = candidates)
          /\ pc' = "done" => results' = candidates]_vars

\* The fetch of page 2 failed after page 1 had given candidates.
C2_Witness ==
    /\ scan = "STOPPED_FETCH_ERROR"
    /\ fetches = 2
    /\ candidates # <<>>
    /\ crawler = "cnyes"
    /\ results = candidates

\* C3 (dedup, MoneyUDN): the candidates _collect_candidates_from_pages has
\* collected never hold the same url twice, whatever the pages repeat.
C3_UdnCandidatesDistinct ==
    crawler = "udn" => NoDuplicateUrl(candidates)

\* A scan in which a page repeated an article already collected has ended.
C3_Witness ==
    /\ crawler = "udn"
    /\ repeat_seen
    /\ scan # "SCANNING"
    /\ fetches >= 2
    /\ Len(candidates) = 2

\* C4 (dedup, CNYES and PTT): the returned table never holds two rows with
\* the same url.
C4_ReturnedUrlsDistinct ==
    (crawler \in {"cnyes", "ptt"} /\ outcome = "returned") =>
        NoDuplicateUrl(results)

\* The urls of the candidates whose pass of the enrichment loop appended a
\* row, in candidate order.
RECURSIVE OkUrls(_, _, _)
OkUrls(cands, events, i) ==
    IF i > Len(events) THEN <<>>
    ELSE IF events[i] = "ok"
         THEN <<cands[i].url>> \o OkUrls(cands, events, i + 1)
         ELSE OkUrls(cands, events, i + 1)

\* C8 (enrichment failure isolation, MoneyUDN and PTT): a candidate whose
\* article fetch raises is dropped alone: the loop goes on to every later
\* candidate, the crawler does not raise, and the returned rows are those of
\* the candidates whose enrichment succeeded, in candidate order.
C8_EnrichFailureIsolated ==
    crawler \in {"udn", "ptt"} =>
        /\ outcome # "raised"
        /\ UrlsOf(results) = OkUrls(candidates, log, 1)
        /\ (outcome = "returned" /\ candidates # <<>>) =>
               Len(log) = Len(candidates)

\* A crawl has returned in which a failed candidate was followed by one that
\* was enriched.
C8_Witness ==
    /\ crawler \in {"udn", "ptt"}
    /\ outcome = "returned"
    /\ \E i, j \in 1..Len(log) :
          i < j /\ log[i] = "failed" /\ log[j] = "ok"
    /\ Len(results) >= 1

\* C9 (PTT precision refinement, hours mode): no returned row carries an
\* article-page timestamp before now - hours.
C9_PttNoRowBeforeCutoff ==
    (crawler = "ptt" /\ cutoff_dt # None) =>
        \A i \in 1..Len(results) :
            results[i].Time # None =>
                results[i].Date * 24 + results[i].Time >= cutoff_dt

\* A candidate that passed the listing's date-only filter was excluded for its
\* article timestamp.
C9_Witness ==
    /\ crawler = "ptt"
    /\ cutoff_dt # None
    /\ outcome = "returned"
    /\ \E i \in 1..Len(log) : log[i] = "too_old"

\* C10 (PTT date verification, date mode): every returned row whose article
\* page carries a timestamp has that timestamp's date equal to the target.
C10_PttRowsOnTargetDate ==
    (crawler = "ptt" /\ hours = None) =>
        \A i \in 1..Len(results) :
            results[i].Time # None => results[i].Date = date

\* A candidate listed on the target date was dropped for the date of its
\* article timestamp.
C10_Witness ==
    /\ crawler = "ptt"
    /\ hours = None
    /\ outcome = "returned"
    /\ \E i \in 1..Len(log) : log[i] = "wrong_date"

\* The Taiwan wall clock of each input item, and of each retained one.
ItemWall(item) ==
    IF crawler = "cnyes"
    THEN IF item.publishAt = None THEN None ELSE item.publishAt + TW_TZ
    ELSE item.datePublished
Retained == IF crawler = "cnyes" THEN out.matched ELSE out.candidates
RetainedWall(r) ==
    IF crawler = "cnyes" THEN r.Date * 24 + r.Time
    ELSE r.date_str * 24 + r.time_str

\* The page holds three items published at T-3h, T-1h and T+1h, T the crawl
\* time, and hours = 2.
C5_Scenario ==
    /\ applied # "none"
    /\ hours = 2
    /\ Len(in_items) = 3
    /\ {ItemWall(in_items[i]) : i \in 1..3} = {clock - 3, clock - 1, clock + 1}

\* C5 as stated (rolling-window correctness): only the T-1h item is retained.
C5_OnlyMiddleRetained ==
    C5_Scenario =>
        /\ Len(Retained) = 1
        /\ RetainedWall(Retained[1]) = clock - 1

\* C5 as the code has it: the window has no upper end, so only the T-3h item
\* is excluded and T-1h and T+1h are both retained; by CNYES in any order of
\* the three, by MoneyUDN when the page lists them newest first.
C5_OlderOnlyExcluded ==
    (/\ C5_Scenario
     /\ crawler = "udn" =>
           \A i \in 1..2 : ItemWall(in_items[i]) > ItemWall(in_items[i + 1]))
    => /\ Len(Retained) = 2
       /\ {RetainedWall(Retained[i]) : i \in 1..2} = {clock - 1, clock + 1}

C5_Witness ==
    /\ C5_Scenario
    /\ crawler = "cnyes"
    /\ Len(out.matched) = 2
    /\ out.found_older

\* What the claims expect of parse_news_items: the rows of the items that
\* pass Keep, in input order.
ExpectedRows(Keep(_), RowDate(_)) ==
    LET sel == SelectSeq(in_items, Keep)
    IN  [i \in 1..Len(sel) |->
            [Date |-> RowDate(sel[i]),
             Time |-> (sel[i].publishAt + TW_TZ) % 24,
             url |-> sel[i].newsId]]

\* C6 (CNYES hours mode): matched is exactly the items that have publishAt
\* and were published at or after the cutoff, in input order, each with its
\* own Taiwan date; found_older iff some item with publishAt was published
\* before the cutoff.
C6_CnyesHoursFilter ==
    (applied = "parse_news_items" /\ cutoff_dt # None) =>
        LET Keep(item) == /\ item.publishAt # None
                          /\ item.publishAt + TW_TZ >= cutoff_dt
            OwnDate(item) == (item.publishAt + TW_TZ) \div 24
        IN  /\ out.matched = ExpectedRows(Keep, OwnDate)
            /\ out.found_older <=>
                  \E i \in 1..Len(in_items) :
                     /\ in_items[i].publishAt # None
                     /\ in_items[i].publishAt + TW_TZ < cutoff_dt

\* An item published exactly at the cutoff was retained, beside an older one,
\* and the retained rows lie on two calendar days.
C6_Witness ==
    /\ applied = "parse_news_items"
    /\ cutoff_dt # None
    /\ out.found_older
    /\ \E i \in 1..Len(in_items) : ItemWall(in_items[i]) = cutoff_dt
    /\ \E i, j \in 1..Len(out.matched) :
          /\ out.matched[i].Date * 24 + out.matched[i].Time = cutoff_dt
          /\ out.matched[j].Date # out.matched[i].Date

\* C7 (CNYES date mode): matched is exactly the items whose Taiwan publish
\* date is the target date, in input order, also those that follow an older
\* item; found_older iff some item is dated before the target; a later item
\* is neither.
C7_CnyesDateFilter ==
    (applied = "parse_news_items" /\ cutoff_dt = None) =>
        LET Keep(item) == /\ item.publishAt # None
                          /\ (item.publishAt + TW_TZ) \div 24 = date
            Target(item) == date
        IN  /\ out.matched = ExpectedRows(Keep, Target)
            /\ out.found_older <=>
                  \E i \in 1..Len(in_items) :
                     /\ in_items[i].publishAt # None
                     /\ (in_items[i].publishAt + TW_TZ) \div 24 < date

\* A matching item that follows an older item on the page was retained.
C7_Witness ==
    /\ applied = "parse_news_items"
    /\ cutoff_dt = None
    /\ Len(in_items) = 3
    /\ ItemWall(in_items[1]) # None /\ DateOf(ItemWall(in_items[1])) < date
    /\ ItemWall(in_items[2]) # None /\ DateOf(ItemWall(in_items[2])) = date
    /\ Len(out.matched) = 1
    /\ out.matched[1].url = in_items[2].newsId
    /\ out.found_older


\* C11 (aggregate fan-out isolation): while GET / is served, every entry of
\* the results dict is what its own crawler came to (the rows it returned, or
\* an error entry with its exception's message), whatever the siblings did
\* and in whatever order the workers finished; and the response, once sent,
\* has status 200 and a data mapping with exactly one such entry for every
\* configured source.
C11_AggregateIsolation ==
    request.endpoint = "/" =>
       /\ \A n \in DOMAIN data :
             /\ futures[n].state = "returned" =>
                   data[n] = [rows |-> futures[n].df]
             /\ futures[n].state = "raised" =>
                   data[n] = [error |-> futures[n].error]
             /\ futures[n].state # "running"
       /\ response.status \in {0, 200}
       /\ response.status = 200 =>
             /\ response.body.date = get_date(request.date)
             /\ DOMAIN response.body.data = CRAWLERS
             /\ response.body.data = data
\* GET / was answered although one crawler raised, with the rows of another.
C11_Witness ==
    /\ request.endpoint = "/"
    /\ response.status = 200
    /\ \E n, m \in CRAWLERS :
          /\ futures[n].state = "raised"
          /\ "error" \in DOMAIN response.body.data[n]
          /\ futures[m].state = "returned"
          /\ response.body.data[m] = [rows |-> <<1>>]

\* C12 (single-source endpoint failure): the response of a single-source
\* endpoint has status 200; its body is {date, error} with the exception's
\* message and no data field when the crawler raised, and {date, data} with
\* the crawler's rows when it returned.
C12_SingleSourceFailure ==
    (request.endpoint \in CRAWLERS /\ response # NoResponse) =>
       LET r == futures[request.endpoint]
           d == get_date(request.date)
       IN  /\ response.status = 200
           /\ r.state = "raised" =>
                 response.body = [date |-> d, error |-> r.error]
           /\ r.state = "returned" =>
                 response.body = [date |-> d, data |-> r.df]
C12_Witness ==
    /\ request.endpoint = "faoi"
    /\ request.date = 365
    /\ response = [status |-> 200,
                   body |-> [date |-> 365, error |-> "connection error"]]
    /\ futures["faoi"].state = "raised"

\* C13 (hours validation): a news endpoint answers hours outside 1..72 with
\* a client-error status and calls no crawler; with hours inside 1..72 it
\* calls its crawler with that hours value and the body carries the hours
\* field; without hours the crawler is called in date mode and the body
\* carries no hours field.
C13_HoursValidation ==
    (request.endpoint \in NEWS_ENDPOINTS /\ response # NoResponse) =>
       LET h == request.hours
       IN  IF h # None /\ (h < 1 \/ h > 72)
           THEN /\ response.status \in 400..499
                /\ calls = {}
           ELSE /\ calls = {<<request.endpoint, get_date(request.date), h>>}
                /\ response.status = 200
                /\ ("hours" \in DOMAIN response.body) <=> (h # None)
                /\ h # None => response.body.hours = h
C13_Witness ==
    /\ request.endpoint = "cnyes_news"
    /\ request.hours = 73
    /\ response.status = 422
    /\ calls = {}


\* C14 (idempotent empty result): for every date and every response whose
\* stat is not "OK", parse_faoi_data and parse_mgts_data do not raise and
\* return a table with no row whose columns are Date followed by the source's
\* fixed English column list.
C14_EmptyResultShape ==
    (applied \in {"parse_faoi_data", "parse_mgts_data"}
        /\ in_items.stat # "OK") =>
       /\ ~out.raised
       /\ out.rows = 0
       /\ out.columns[1] = "Date"
       /\ SubSeq(out.columns, 2, Len(out.columns)) =
             IF crawler = "faoi" THEN faoi_en_columns ELSE mgts_en_columns
C14_Witness ==
    /\ applied = "parse_faoi_data"
    /\ in_items.stat = "no data"
    /\ in_items.fields = <<>>
    /\ Len(out.columns) = 20
    /\ out.rows = 0

\* C15 (uniform schema, FAOI): the column names of the table parse_faoi_data
\* returns for a trading day (stat "OK") are the column names of the empty
\* table it returns for a day without session.
C15_FaoiUniformSchema ==
    (applied = "parse_faoi_data" /\ in_items.stat = "OK" /\ ~out.raised) =>
       out.columns = faoi_gen_empty_date_df.columns


\* C16 (no-data result shape): whenever a crawl of a news crawler ends with
\* no surviving article (no listed item matched, the listing was empty, the
\* listing fetch failed, or every enrichment failed or was filtered out), the
\* crawler has returned, not raised, and what it returned is a DataFrame, not
\* None, with no row and with that crawler's fixed column list.
C16_NoDataShape ==
    (pc = "done" /\ results = <<>>) =>
       /\ outcome = "returned"
       /\ df.kind = "DataFrame"
       /\ df.rows = <<>>
       /\ df.columns = news_columns(crawler)
\* Every enrichment of a PTT crawl with candidates failed.
C16_Witness ==
    /\ crawler = "ptt" /\ pc = "done"
    /\ Len(candidates) = 2
    /\ log = <<"failed", "failed">>
    /\ df = [kind |-> "DataFrame",
             columns |-> <<"Date", "Time", "Author", "Head", "url", "Content">>,
             rows |-> <<>>]

\* C18 (termination): every crawl invocation eventually reaches its terminal
\* state and returns, whatever the source answers.
C18_AlwaysTerminates == <>(pc = "done")
\* The crawlers whose listing loop counts its pages do terminate.
C18_CountedLoopsTerminate == (crawler # "ptt") ~> (pc = "done")

\* C19 (page limit): MoneyUDN fetches at most MAX_LIST_PAGES listing pages,
\* CTEE at most MAX_PAGES (the HTML page and the API pages 2..20), CNYES no
\* page beyond the last_page its page-1 response reported; and the page a
\* scan fetches next is always one more than the number of pages it has
\* fetched, so the page numbers go up by one and none is fetched twice.
C19_PageLimit ==
    /\ crawler = "udn" => fetches <= MAX_LIST_PAGES
    /\ crawler = "ctee" => fetches <= MAX_PAGES
    /\ crawler = "cnyes" => (fetches <= 1 \/ fetches <= last_page)
    /\ (crawler \in {"udn", "ctee", "cnyes"} /\ pc = "list") =>
          page = fetches + 1
C19_Witness ==
    /\ crawler = "ctee"
    /\ fetches = MAX_PAGES
    /\ scan = "STOPPED_MAX_PAGES"
    /\ pc = "done"


C20_WholePageScanned ==
    (pc = "filter" /\ applied = "udn_scan_page") =>
       \A j \in 1..Len(in_items) :
          UdnMatches(in_items[j]) =>
             \E k \in 1..Len(out.candidates) :
                out.candidates[k].url = build_full_url(in_items[j].url)
\* What the code does collect: the matching articles that come before the
\* first article past the boundary.
C20_ScannedUpToBoundary ==
    (pc = "filter" /\ applied = "udn_scan_page") =>
       \A j \in 1..Len(in_items) :
          (UdnMatches(in_items[j])
             /\ \A m \in 1..(j - 1) : ~UdnIsPast(in_items[m])) =>
                \E k \in 1..Len(out.candidates) :
                   out.candidates[k].url = build_full_url(in_items[j].url)


\* C21 (empty-page stop): in every news crawler a listing page that yields no
\* item ends the scan: once the last listing response was an empty page the
\* invocation is out of its listing loop, so that no listing page is fetched
\* after it.
C21_EmptyPageStops == (last_fetch = "empty") => (pc # "list")
\* The loops that test the page for emptiness do stop: CNYES, MoneyUDN and
\* CTEE's API pages.
C21_EmptyPageStops_Tested ==
    (/\ last_fetch = "empty"
     /\ \/ crawler \in {"cnyes", "udn"}
        \/ crawler = "ctee" /\ fetches > 1) => (pc # "list")

\* C22 (fetch-error stop, CTEE): when the fetch of the HTML page 1 has failed
\* the scan is over in its fetch-error state with no candidate, and no API
\* page is fetched.
C22_CteeHtmlErrorStops ==
    (crawler = "ctee" /\ last_fetch = "error") =>
       /\ pc # "list"
       /\ scan = "STOPPED_FETCH_ERROR"
       /\ fetches = 1 => candidates = <<>>
\* A failed fetch of an API page does end CTEE's scan, and a failed listing
\* fetch ends the scan of the other crawlers.
C22_OtherFetchErrorsStop ==
    (last_fetch = "error" /\ ~(crawler = "ctee" /\ fetches = 1)) =>
       (pc # "list" /\ scan = "STOPPED_FETCH_ERROR")

\* C23 (inter-request delay): within one invocation no HTTP request follows
\* another, listing fetch or article fetch, without a delay between the two.
C23_DelayBetweenRequests == gap # "hasty"
\* PTT and CTEE sleep before every request but the first.
C23_DelayBetweenRequests_PttCtee ==
    crawler \in {"ptt", "ctee"} => gap # "hasty"
\* MoneyUDN sleeps between two listing fetches and between two article
\* fetches.
C23_UdnDelayWithinLoops ==
    (crawler = "udn" /\ gap = "hasty") => (pc # "list" /\ Len(log) >= 1)


\* C24 (stable cutoff): in hours mode the cutoff is the instant of the call
\* minus hours from the first fetch to the return, however far the clock has
\* moved on since; it is this value that filters every listing page and
\* every re-check of the enrichment.
C24_StableCutoff ==
    (hours # None /\ pc # "start") => cutoff_dt = CallClock - hours
\* The clock has moved on during a scan of two listing pages, and the
\* enrichment has re-checked an article against the cutoff.
C24_Witness ==
    /\ hours # None
    /\ clock > CallClock
    /\ fetches >= 2
    /\ pc = "done"
    /\ \E i \in 1..Len(log) : log[i] = "too_old"
    /\ cutoff_dt = CallClock - hours


\* The entries of the page that show a date.
DatedEntries == SelectSeq(in_items, LAMBDA e : e.posted # None)

\* C25 (conservative include): parse_list_articles of PTT and parse_html_list
\* of CTEE, in both modes, add every listing item that has a link but no
\* date, or a date that does not parse, to the candidates, and such an item
\* never sets found_older: found_older is what the dated items of the page
\* alone make it.
C25_ConservativeInclude ==
    (pc = "filter" /\ applied \in {"parse_list_articles", "parse_html_list"}) =>
       /\ \A i \in 1..Len(in_items) :
             (in_items[i].posted = None /\ in_items[i].url # 0) =>
                \E k \in 1..Len(out.articles) :
                   out.articles[k].url = in_items[i].url
       /\ out.found_older =
             IF crawler = "ptt"
             THEN parse_list_articles(DatedEntries, date, YearOf(date),
                                      cutoff_date_of(cutoff_dt)).found_older
             ELSE parse_html_list(DatedEntries, date,
                                  cutoff_date_of(cutoff_dt)).found_older
\* A page of undated items only: all are candidates, found_older is not set.
C25_Witness ==
    /\ pc = "filter" /\ applied \in {"parse_list_articles", "parse_html_list"}
    /\ Len(in_items) = 2
    /\ \A i \in 1..2 : in_items[i].posted = None /\ in_items[i].url = i
    /\ Len(out.articles) = 2
    /\ ~out.found_older

\* The items of the page that carry publishAt.
StampedItems == SelectSeq(in_items, LAMBDA item : item.publishAt # None)

\* C26 (CNYES items without a timestamp): in both modes parse_news_items
\* skips an item that lacks publishAt and goes on with the rest of the page:
\* its result is the result for the page without those items, so that such an
\* item is not matched and does not set found_older.
C26_MissingPublishAtSkipped ==
    (pc = "filter" /\ applied = "parse_news_items") =>
       /\ out = parse_news_items(StampedItems, date, cutoff_dt)
       /\ \A i \in 1..Len(in_items) :
             in_items[i].publishAt = None =>
                \A k \in 1..Len(out.matched) :
                   out.matched[k].url # build_article_url(in_items[i].newsId)
\* An item without publishAt stands first on the page; the item after it was
\* matched and nothing is older.
C26_Witness ==
    /\ pc = "filter" /\ applied = "parse_news_items"
    /\ Len(in_items) = 2
    /\ in_items[1].publishAt = None
    /\ in_items[2].publishAt # None
    /\ Len(out.matched) = 1
    /\ out.matched[1].url = build_article_url(in_items[2].newsId)
    /\ ~out.found_older


\* C27 (CTEE precision refinement, hours mode): no row ctee_news_crawler
\* returns was published before the cutoff instant, when its article page
\* supplies a publish time; for HTML candidates as for API candidates, also
\* when the article was published on another day than the date argument.
C27_CteeNoRowBeforeCutoff ==
    (crawler = "ctee" /\ hours # None /\ pc \in {"enrich", "done"}) =>
       \A k \in 1..Len(results) :
          results[k].published # None => results[k].published >= cutoff_dt
\* The re-check does exclude an article published before the cutoff on the
\* day the crawler takes it to be of: the date of its API item, or else the
\* date argument.
C27_CteeSameDayRefined ==
    (crawler = "ctee" /\ hours # None /\ pc \in {"enrich", "done"}) =>
       \A k \in 1..Len(results) :
          (/\ results[k].published # None
           /\ DateOf(results[k].published) = results[k].Date) =>
              results[k].published >= cutoff_dt


\* C29 (Date field in date mode): in a date-mode crawl of CNYES, MoneyUDN,
\* PTT or CTEE every row of the table has the requested date as its Date.
C29_DateModeRowsCarryDate ==
    (hours = None /\ crawler \in {"cnyes", "udn", "ptt", "ctee"}) =>
       /\ \A k \in 1..Len(results) : results[k].Date = date
       /\ df.kind = "DataFrame" =>
             \A k \in 1..Len(df.rows) : df.rows[k].Date = date
\* A date-mode PTT crawl returned two rows, one of an article whose page has
\* no timestamp.
C29_Witness ==
    /\ hours = None /\ crawler = "ptt" /\ pc = "done"
    /\ Len(df.rows) = 2
    /\ df.rows[1].Time = None
    /\ df.rows[2].Time # None
    /\ \A k \in 1..2 : df.rows[k].Date = date


\* Entry i of a PTT listing page was posted before the target date.
PttPostedBefore(i) ==
    /\ in_items[i].posted # None
    /\ parse_list_date_true(in_items[i].posted, YearOf(date)) < date
PttNotCollected(i) ==
    (\A j \in 1..Len(in_items) : j # i => in_items[j].url # in_items[i].url)
       => \A k \in 1..Len(out.articles) :
             out.articles[k].url # in_items[i].url

\* C30 (PTT year boundary): in date mode parse_list_articles treats an entry
\* posted in the calendar year before the target's year (shown as 12/31 when
\* the target is in January) as older than the target: the entry is not
\* collected and found_older is set.
C30_PttYearBoundary ==
    (pc = "filter" /\ applied = "parse_list_articles" /\ cutoff_dt = None) =>
       \A i \in 1..Len(in_items) :
          (PttPostedBefore(i) /\ YearOf(in_items[i].posted) < YearOf(date)) =>
             (out.found_older /\ PttNotCollected(i))
\* An older entry of the target's own year is treated so.
C30_PttSameYearOlder ==
    (pc = "filter" /\ applied = "parse_list_articles" /\ cutoff_dt = None) =>
       \A i \in 1..Len(in_items) :
          (PttPostedBefore(i) /\ YearOf(in_items[i].posted) = YearOf(date)) =>
             (out.found_older /\ PttNotCollected(i))


\* The urls the scan returned, and the urls of the listed items of the
\* target date.
ScannedUrls ==
    IF crawler = "cnyes"
    THEN {out.all_articles[k].url : k \in 1..Len(out.all_articles)}
    ELSE {out.candidates[k].url : k \in 1..Len(out.candidates)}
ListedOnTarget ==
    {in_items[i].id : i \in {j \in 1..Len(in_items) :
                                DateOf(in_items[j].at) = date}}

\* C28 (completeness under newest-first order): over a listing sorted newest
\* first, all of whose items have a publish time, with no fetch failing and
\* the scan not cut off by the page limit while pages remain, the date-mode
\* scan of CNYES and of MoneyUDN returns exactly the listed items of the
\* target date: stopping at the boundary loses none.
C28_CompleteWhenSorted ==
    (/\ pc = "feed" /\ applied # "none"
     /\ ~(out.scan = "STOPPED_MAX_PAGES" /\ out.page <= Len(feed)))
    => ScannedUrls = ListedOnTarget
\* The scan read two pages and stopped at the boundary on the second, with
\* both articles of the target date, which stand on different pages behind
\* a newer item.
C28_Witness ==
    /\ pc = "feed" /\ applied # "none"
    /\ out.scan = "STOPPED_BOUNDARY" /\ out.page = 2
    /\ Len(in_items) = 4 /\ Len(feed) = 2
    /\ DateOf(in_items[1].at) > date
    /\ DateOf(in_items[2].at) = date /\ in_items[2].id = 1
    /\ DateOf(in_items[3].at) = date /\ in_items[3].id = 2
    /\ DateOf(in_items[4].at) < date
    /\ ScannedUrls = {1, 2}

=============================================================================
